---- MODULE Spec2Model ----
(***************************************************************************)
(* PostfixSegmentTree: a segment tree whose nodes are stored in postfix    *)
(* order in one growable vector.  The model follows src/lib.rs,            *)
(* src/index.rs, src/iterator.rs and src/internal/*.rs.                    *)
(*                                                                         *)
(* Storage slot s of the Rust vector `nodes` is nodes[s + 1] here          *)
(* (TLA+ sequences start at 1).  An Option<T> is a sequence of length      *)
(* at most one: << >> is None, <<v>> is Some(v).                           *)
(***************************************************************************)
EXTENDS Integers, Sequences, FiniteSets, TLC

\* ------------------------------------------------------------------ bounds
MaxLen == 4          \* largest number of elements the model lets a tree hold
MaxVal == 1          \* element values are 0 .. MaxVal
WordBits == 8        \* width of usize in the model

Values == 0 .. MaxVal

\* ------------------------------------------------------- machine integers
RECURSIVE Pow2(_)
Pow2(n) == IF n = 0 THEN 1 ELSE 2 * Pow2(n - 1)

USIZE_MAX == Pow2(WordBits) - 1
MAX_LEN == USIZE_MAX \div 2

RECURSIVE count_ones(_)
count_ones(n) == IF n = 0 THEN 0 ELSE (n % 2) + count_ones(n \div 2)

RECURSIVE trailing_ones(_)
trailing_ones(n) == IF n % 2 = 0 THEN 0 ELSE 1 + trailing_ones(n \div 2)

RECURSIVE trailing_zeros(_)
trailing_zeros(n) ==
    IF n = 0 THEN WordBits
    ELSE IF n % 2 = 1 THEN 0 ELSE 1 + trailing_zeros(n \div 2)

RECURSIVE ilog2(_)
ilog2(n) == IF n <= 1 THEN 0 ELSE 1 + ilog2(n \div 2)

Default == 0

None == << >>
Some(v) == << v >>

\* ------------------------------------------------------------ node_id.rs
\* usize arithmetic of a build without overflow checks: the result modulo 2^w
Wrap(x) == x % (USIZE_MAX + 1)

\* the closed form subtracting the trailing ones instead of all set bits
get_nodes_len_for_trailing_ones(n) == Wrap(Wrap(n * 2) - trailing_ones(n))

\* `len * 2 - len.count_ones() as usize`; the debug_assert!(len <= MAX_LEN)
\* is get_nodes_len_for_assert
get_nodes_len_for(n) == Wrap(Wrap(n * 2) - count_ones(n))

get_nodes_len_for_assert(n) == n <= MAX_LEN

get_max_level_from_index(index) == trailing_ones(index)

NodeId(index, level) == [index |-> index, level |-> level]

\* left_child moving the index but keeping the parent's level
left_child_same_level(id) ==
    LET child_level == id.level - 1
        width == Pow2(child_level)
    IN  [index |-> id.index - width, level |-> id.level]

left_child(id) ==
    LET child_level == id.level - 1
        width == Pow2(child_level)
    IN  [index |-> id.index - width, level |-> child_level]

right_child(id) == [index |-> id.index, level |-> id.level - 1]

\* the debug assertions of LeafNodeId::new and NodeId::new
LeafNodeId_new_assert(index) == index <= MAX_LEN

NodeId_new_assert(index, level) ==
    index <= MAX_LEN /\ level <= get_max_level_from_index(index)

\* node_index spacing the levels of one index two slots apart
node_index_double_level(id) == get_nodes_len_for(id.index) + 2 * id.level

node_index(id) == get_nodes_len_for(id.index) + id.level

leaf_node_index(index) == get_nodes_len_for(index)

\* ---------------------------------------------------------- element type
\* PostfixSegmentTree<T> asks of T only Default and AddAssign<&T>.  The tree
\* is instantiated either with usize ("usize": 0 and +) or with words over
\* the letters 1 .. MaxLetter under concatenation ("words"); a word is held
\* as the number whose decimal digits are its letters, the empty word as 0.
VARIABLE monoid

MaxLetter == 2       \* the letters of a word are 1 .. MaxLetter (at most 9)

Words == 1 .. MaxLetter

RECURSIVE digits(_)
digits(w) == IF w = 0 THEN 0 ELSE 1 + digits(w \div 10)

RECURSIVE Pow10(_)
Pow10(n) == IF n = 0 THEN 1 ELSE 10 * Pow10(n - 1)

concat(a, b) == a * Pow10(digits(b)) + b

\* `sum += x` of T: the new value of sum
add_assign(sum, x) == IF monoid = "usize" THEN sum + x ELSE concat(sum, x)

\* --------------------------------------------------------- operations.rs
\* A tree is a record [nodes, len]; `written` collects the storage slots the
\* call under way has stored into (assignments and swaps through &mut).
Tree(ns, n) == [nodes |-> ns, len |-> n, written |-> {}]

get_node(t, id) == t.nodes[node_index(id) + 1]

get_leaf_node(t, index) == t.nodes[leaf_node_index(index) + 1]

set_node(t, slot, v) ==
    [t EXCEPT !.nodes[slot + 1] = v, !.written = @ \cup {slot}]

swap_leaf_nodes(t, left, right) ==
    LET l == leaf_node_index(left)
        r == leaf_node_index(right)
    IN  [t EXCEPT !.nodes = [t.nodes EXCEPT ![l + 1] = t.nodes[r + 1],
                                            ![r + 1] = t.nodes[l + 1]],
                  !.written = @ \cup {l, r}]

RECURSIVE resize_with(_, _)
resize_with(ns, n) ==
    IF Len(ns) >= n THEN SubSeq(ns, 1, n)
    ELSE resize_with(Append(ns, Default), n)

push_default_dirty(t) ==
    [t EXCEPT !.nodes = resize_with(t.nodes, get_nodes_len_for(t.len + 1)),
              !.len = t.len + 1]

\* truncate that moves len but forgets to shrink the vector
truncate_keeps_nodes(t, n) ==
    IF n >= t.len THEN t
    ELSE [t EXCEPT !.len = n]

truncate(t, n) ==
    IF n >= t.len THEN t
    ELSE [t EXCEPT !.nodes = SubSeq(t.nodes, 1, get_nodes_len_for(n)), !.len = n]

\* pop returns the tree left behind; the popped value is pop_value
pop_value(t) == get_leaf_node(t, t.len - 1)

pop(t) == truncate(set_node(t, leaf_node_index(t.len - 1), Default), t.len - 1)

RECURSIVE rotate_right_loop(_, _, _)
rotate_right_loop(t, i, index) ==
    IF i < index THEN t
    ELSE rotate_right_loop(swap_leaf_nodes(t, i, i + 1), i - 1, index)

\* the right rotation stopping one swap early
rotate_right_one_short(t, index) ==
    LET shift_len == t.len - index - 1
    IN  rotate_right_loop(t, index + shift_len - 1, index + 1)

rotate_leaf_nodes_right_by_one_dirty(t, index) ==
    LET shift_len == t.len - index - 1
    IN  rotate_right_loop(t, index + shift_len - 1, index)

RECURSIVE rotate_left_loop(_, _, _)
rotate_left_loop(t, i, stop) ==
    IF i >= stop THEN t
    ELSE rotate_left_loop(swap_leaf_nodes(t, i, i + 1), i + 1, stop)

rotate_leaf_nodes_left_by_one_dirty(t, index) ==
    LET shift_len == t.len - 1 - index
    IN  rotate_left_loop(t, index, index + shift_len)

\* recalculate_node that forgets the left child
recalculate_node_right_only(t, id) ==
    LET sum == add_assign(Default, get_node(t, right_child(id)))
    IN  set_node(t, node_index(id), sum)

recalculate_node(t, id) ==
    LET sum == add_assign(add_assign(Default, get_node(t, left_child(id))),
                          get_node(t, right_child(id)))
    IN  set_node(t, node_index(id), sum)

\* the inner `while current_level <= max_level` loop
RECURSIVE recalculate_levels(_, _, _, _)
recalculate_levels(t, index, level, max_level) ==
    IF level > max_level THEN t
    ELSE recalculate_levels(recalculate_node(t, NodeId(index, level)),
                            index, level + 1, max_level)

RECURSIVE recalculate_update_loop(_, _, _)
recalculate_update_loop(t, current_index, current_level) ==
    IF current_index >= t.len THEN t
    ELSE LET max_level == get_max_level_from_index(current_index)
             t2 == recalculate_levels(t, current_index, current_level, max_level)
             level2 == IF current_level <= max_level THEN max_level + 1
                       ELSE current_level
         IN  recalculate_update_loop(t2, current_index + Pow2(level2 - 1), level2)

recalculate_nodes_after_update(t, index) == recalculate_update_loop(t, index, 1)

RECURSIVE recalculate_bulk_loop(_, _)
recalculate_bulk_loop(t, i) ==
    IF i >= t.len THEN t
    ELSE recalculate_bulk_loop(
             recalculate_levels(t, i, 1, get_max_level_from_index(i)), i + 1)

\* the bulk recalculation restarting at leaf 0 instead of leaf `index`
recalculate_bulk_from_start(t, index) == recalculate_bulk_loop(t, 0)

recalculate_nodes_after_bulk_update(t, index) == recalculate_bulk_loop(t, index)

\* debug_assert!(id.index() < self.len()) at the head of the bulk recalculation
recalculate_nodes_after_bulk_update_assert(t, index) == index < t.len

\* -------------------------------------------------- skipping_iterator.rs
\* the descending step taking the lowest set bit of the offset
step_skipping_lowest_bit(elements, index) ==
    IF index >= elements THEN None
    ELSE LET offset == elements - index
             level == trailing_zeros(offset)
             width == Pow2(level)
         IN  Some(NodeId(index + width - 1, level))

step_skipping_iterator(elements, index) ==
    IF index >= elements THEN None
    ELSE LET offset == elements - index
             level == ilog2(offset)
             width == Pow2(level)
         IN  Some(NodeId(index + width - 1, level))

\* the ascending step taking the highest set bit of the offset
step_increasing_highest_bit(elements, index) ==
    IF index >= elements THEN None
    ELSE LET offset == elements - index
             level == ilog2(offset)
             width == Pow2(level)
         IN  Some(NodeId(index + width - 1, level))

step_increasing_skipping_iterator(elements, index) ==
    IF index >= elements THEN None
    ELSE LET offset == elements - index
             level == trailing_zeros(offset)
             width == Pow2(level)
         IN  Some(NodeId(index + width - 1, level))

min_reachable_index_for_elements(elements) ==
    IF elements = 0 THEN 0
    ELSE elements - Pow2(trailing_zeros(elements))

max_reachable_elements_for_current_index(index) ==
    IF index = 0 THEN USIZE_MAX
    ELSE index + (Pow2(trailing_zeros(index)) - 1)

RECURSIVE get_pivot_loop(_, _, _)
get_pivot_loop(i, index, end) ==
    IF i >= index THEN i
    ELSE get_pivot_loop(step_skipping_iterator(end, i)[1].index + 1, index, end)

get_pivot(index, end) == get_pivot_loop(0, index, end)

\* the descending loop with `sum = node` in place of `sum += node`
RECURSIVE sum_skipping_assign(_, _, _, _)
sum_skipping_assign(t, i, end, sum) ==
    LET step == step_skipping_iterator(end, i)
    IN  IF step = None THEN sum
        ELSE sum_skipping_assign(t, step[1].index + 1, end, get_node(t, step[1]))

\* `for id in SkippingIterator { sum += self.get_node(id) }`, resumed at cursor i
RECURSIVE sum_skipping(_, _, _, _)
sum_skipping(t, i, end, sum) ==
    LET step == step_skipping_iterator(end, i)
    IN  IF step = None THEN sum
        ELSE sum_skipping(t, step[1].index + 1, end,
                          add_assign(sum, get_node(t, step[1])))

\* the ascending loop with `sum = node` in place of `sum += node`
RECURSIVE sum_increasing_assign(_, _, _, _)
sum_increasing_assign(t, i, end, sum) ==
    LET step == step_increasing_skipping_iterator(end, i)
    IN  IF step = None THEN sum
        ELSE sum_increasing_assign(t, step[1].index + 1, end, get_node(t, step[1]))

\* `for id in IncreasingSkippingIterator { sum += self.get_node(id) }`
RECURSIVE sum_increasing(_, _, _, _)
sum_increasing(t, i, end, sum) ==
    LET step == step_increasing_skipping_iterator(end, i)
    IN  IF step = None THEN sum
        ELSE sum_increasing(t, step[1].index + 1, end,
                            add_assign(sum, get_node(t, step[1])))

\* The debug assertions of the two steps and of IncreasingSkippingIterator::new
step_skipping_iterator_assert(elements, index) ==
    elements <= max_reachable_elements_for_current_index(index)

step_increasing_skipping_iterator_assert(elements, index) ==
    index >= min_reachable_index_for_elements(index)

IncreasingSkippingIterator_new_assert(index, end) ==
    index >= min_reachable_index_for_elements(end)

\* The outcome of running an iterator to its end: the NodeIds it returned,
\* whether a call aborted, and whether a call returned None.
Ran(ids, panic, ended) == [ids |-> ids, panic |-> panic, ended |-> ended]

\* `for id in iter` over a SkippingIterator whose cursor is i: next is called
\* until it returns None.  calls counts the calls made; an iteration over
\* at most `end` leaves makes at most end + 1 of them, and the run is cut
\* off (ended = FALSE) when that number is exceeded.
RECURSIVE SkippingIterator_run(_, _, _, _, _)
SkippingIterator_run(i, end, dbg, ids, calls) ==
    IF calls > end + 1 THEN Ran(ids, FALSE, FALSE)
    ELSE IF dbg /\ ~LeafNodeId_new_assert(i) THEN Ran(ids, TRUE, FALSE)
    ELSE IF dbg /\ ~step_skipping_iterator_assert(end, i) THEN Ran(ids, TRUE, FALSE)
    ELSE LET step == step_skipping_iterator(end, i)
         IN  IF step = None THEN Ran(ids, FALSE, TRUE)
             ELSE IF dbg /\ ~NodeId_new_assert(step[1].index, step[1].level)
                  THEN Ran(ids, TRUE, FALSE)
             ELSE SkippingIterator_run(step[1].index + 1, end, dbg,
                                       Append(ids, step[1]), calls + 1)

\* `for id in iter` over an IncreasingSkippingIterator whose cursor is i
RECURSIVE IncreasingSkippingIterator_loop(_, _, _, _, _)
IncreasingSkippingIterator_loop(i, end, dbg, ids, calls) ==
    IF calls > end + 1 THEN Ran(ids, FALSE, FALSE)
    ELSE IF dbg /\ ~LeafNodeId_new_assert(i) THEN Ran(ids, TRUE, FALSE)
    ELSE IF dbg /\ ~step_increasing_skipping_iterator_assert(end, i)
         THEN Ran(ids, TRUE, FALSE)
    ELSE LET step == step_increasing_skipping_iterator(end, i)
         IN  IF step = None THEN Ran(ids, FALSE, TRUE)
             ELSE IF dbg /\ ~NodeId_new_assert(step[1].index, step[1].level)
                  THEN Ran(ids, TRUE, FALSE)
             ELSE IncreasingSkippingIterator_loop(step[1].index + 1, end, dbg,
                                                  Append(ids, step[1]), calls + 1)

\* `for id in IncreasingSkippingIterator::new(index, end)`
IncreasingSkippingIterator_run(index, end, dbg) ==
    IF dbg /\ ~IncreasingSkippingIterator_new_assert(index, end)
    THEN Ran(<< >>, TRUE, FALSE)
    ELSE IncreasingSkippingIterator_loop(index, end, dbg, << >>, 0)

\* The outcome of get_pivot: the cursor it stopped at, whether it aborted
\* (a debug assertion, or unwrap on None), and whether its loop ended.
Pivot(i, panic, ended) == [pivot |-> i, panic |-> panic, ended |-> ended]

\* the loop of get_pivot stopping one position early (`i + 1 < index`)
RECURSIVE get_pivot_run_one_short(_, _, _, _, _)
get_pivot_run_one_short(i, index, end, dbg, calls) ==
    IF ~(i + 1 < index) THEN Pivot(i, FALSE, TRUE)
    ELSE IF calls > end THEN Pivot(i, FALSE, FALSE)
    ELSE IF dbg /\ ~LeafNodeId_new_assert(i) THEN Pivot(i, TRUE, FALSE)
    ELSE IF dbg /\ ~step_skipping_iterator_assert(end, i) THEN Pivot(i, TRUE, FALSE)
    ELSE LET step == step_skipping_iterator(end, i)
         IN  IF step = None THEN Pivot(i, TRUE, FALSE)
             ELSE IF dbg /\ ~NodeId_new_assert(step[1].index, step[1].level)
                  THEN Pivot(i, TRUE, FALSE)
             ELSE get_pivot_run_one_short(step[1].index + 1, index, end, dbg, calls + 1)

\* `while i < index { ... }` of get_pivot with its assertions and its
\* unwrap; calls counts the iterations, at most `end` of them
RECURSIVE get_pivot_run(_, _, _, _, _)
get_pivot_run(i, index, end, dbg, calls) ==
    IF ~(i < index) THEN Pivot(i, FALSE, TRUE)
    ELSE IF calls > end THEN Pivot(i, FALSE, FALSE)
    ELSE IF dbg /\ ~LeafNodeId_new_assert(i) THEN Pivot(i, TRUE, FALSE)
    ELSE IF dbg /\ ~step_skipping_iterator_assert(end, i) THEN Pivot(i, TRUE, FALSE)
    ELSE LET step == step_skipping_iterator(end, i)
         IN  IF step = None THEN Pivot(i, TRUE, FALSE)
             ELSE IF dbg /\ ~NodeId_new_assert(step[1].index, step[1].level)
                  THEN Pivot(i, TRUE, FALSE)
             ELSE get_pivot_run(step[1].index + 1, index, end, dbg, calls + 1)

\* SkippingIterator { index: cursor, end }.skip_to_pivot(index)
skip_to_pivot(cursor, index, end, dbg) ==
    IF dbg /\ ~(index >= cursor) THEN Pivot(cursor, TRUE, FALSE)
    ELSE IF dbg /\ ~(index <= end) THEN Pivot(cursor, TRUE, FALSE)
    ELSE get_pivot_run(0, index, end, dbg, 0)

\* ------------------------------------------------------ index.rs, lib.rs
\* get that reads slot `index` instead of the leaf's slot
get_logical_slot(t, index) ==
    IF index >= t.len THEN None ELSE Some(t.nodes[index + 1])

get(t, index) == IF index >= t.len THEN None ELSE Some(get_leaf_node(t, index))

\* The outcome of a public call: the tree it leaves, whether it aborted
\* (assert! or a failed debug_assert!), and the value it returned.
Done(t, r) == [tree |-> t, panic |-> FALSE, ret |-> r]
Abort(t) == [tree |-> t, panic |-> TRUE, ret |-> None]

\* `tree[index]` (impl Index<usize>): LeafNodeId::new and get_leaf_node only
\* debug_assert their argument; the Vec access `self.nodes[node_index]` is
\* bounds-checked in every build.
index_op(t, index, dbg) ==
    IF dbg /\ ~(index <= MAX_LEN) THEN Abort(t)
    ELSE IF dbg /\ ~(index < t.len) THEN Abort(t)
    ELSE IF dbg /\ ~get_nodes_len_for_assert(index) THEN Abort(t)
    ELSE LET slot == leaf_node_index(index)
         IN  IF slot >= Len(t.nodes) THEN Abort(t)
             ELSE Done(t, Some(t.nodes[slot + 1]))

prefix_sum(t, index) ==
    IF ~(index <= t.len) THEN Abort(t)
    ELSE Done(t, Some(sum_skipping(t, 0, index, Default)))

\* sum running its second loop (pivot .. end) before its first
sum_second_loop_first(t, index, count) ==
    IF ~(index <= t.len) \/ ~(count <= t.len - index) THEN Abort(t)
    ELSE LET end == index + count
             pivot == get_pivot(index, end)
             s1 == sum_skipping(t, pivot, end, Default)
         IN  Done(t, Some(sum_increasing(t, index, pivot, s1)))

sum(t, index, count) ==
    IF ~(index <= t.len) \/ ~(count <= t.len - index) THEN Abort(t)
    ELSE LET end == index + count
             pivot == get_pivot(index, end)
             s1 == sum_increasing(t, index, pivot, Default)
         IN  Done(t, Some(sum_skipping(t, pivot, end, s1)))

\* the second loop of sum restarted at `index` instead of the pivot
sum_node_ids_from_index(index, len, dbg) ==
    LET end == index + len
        p == skip_to_pivot(0, index, end, dbg)
    IN  IF p.panic \/ ~p.ended THEN Ran(<< >>, p.panic, FALSE)
        ELSE LET up == IncreasingSkippingIterator_run(index, p.pivot, dbg)
             IN  IF up.panic \/ ~up.ended THEN up
                 ELSE SkippingIterator_run(index, end, dbg, up.ids, 0)

\* The NodeIds sum(index, len) reads, in the order it reads them: the
\* ascending loop over index..pivot, then `for id in iter` from the pivot.
sum_node_ids(index, len, dbg) ==
    LET end == index + len
        p == skip_to_pivot(0, index, end, dbg)
    IN  IF p.panic \/ ~p.ended THEN Ran(<< >>, p.panic, FALSE)
        ELSE LET up == IncreasingSkippingIterator_run(index, p.pivot, dbg)
             IN  IF up.panic \/ ~up.ended THEN up
                 ELSE SkippingIterator_run(p.pivot, end, dbg, up.ids, 0)

postfix_sum(t, index) ==
    IF ~(index <= t.len) THEN Abort(t)
    ELSE sum(t, index, t.len - index)

\* update storing the element at slot `index` instead of the leaf's slot
update_logical_slot(t, index, element) ==
    IF ~(index < t.len) THEN Abort(t)
    ELSE LET t1 == set_node(t, index, element)
         IN  Done(recalculate_nodes_after_update(t1, index), None)

update(t, index, element) ==
    IF ~(index < t.len) THEN Abort(t)
    ELSE LET t1 == set_node(t, leaf_node_index(index), element)
         IN  Done(recalculate_nodes_after_update(t1, index), None)

\* push storing the element at slot `len - 1` instead of the new leaf's slot
push_logical_slot(t, element) ==
    IF ~(t.len <= MAX_LEN - 1) THEN Abort(t)
    ELSE LET t1 == push_default_dirty(t)
             new_leaf == t1.len - 1
             t2 == set_node(t1, new_leaf, element)
         IN  Done(recalculate_nodes_after_update(t2, new_leaf), None)

push(t, element) ==
    IF ~(t.len <= MAX_LEN - 1) THEN Abort(t)
    ELSE LET t1 == push_default_dirty(t)
             new_leaf == t1.len - 1
             t2 == set_node(t1, leaf_node_index(new_leaf), element)
         IN  Done(recalculate_nodes_after_update(t2, new_leaf), None)

insert(t, index, element) ==
    IF ~(t.len <= MAX_LEN - 1) \/ ~(index <= t.len) THEN Abort(t)
    ELSE LET t1 == push_default_dirty(t)
             new_leaf == t1.len - 1
             t2 == set_node(t1, leaf_node_index(new_leaf), element)
             t3 == rotate_leaf_nodes_right_by_one_dirty(t2, index)
         IN  Done(recalculate_nodes_after_bulk_update(t3, index), None)

\* dbg: the build has debug assertions enabled.  A build is either debug or
\* release for the whole run; a failed debug assertion ends the run, so the
\* runs of both builds are covered by choosing dbg at each call.
remove(t, index, dbg) ==
    IF ~(index < t.len) THEN Abort(t)
    ELSE LET t1 == rotate_leaf_nodes_left_by_one_dirty(t, index)
             popped == pop_value(t1)
             t2 == pop(t1)
         IN  IF dbg /\ ~recalculate_nodes_after_bulk_update_assert(t2, index)
             THEN Abort(t2)
             ELSE Done(recalculate_nodes_after_bulk_update(t2, index), Some(popped))

truncate_tree(t, n) ==
    IF n >= t.len THEN Done(t, None)
    ELSE IF ~(n <= MAX_LEN) THEN Abort(t)
    ELSE Done(truncate(t, n), None)

new == Tree(<< >>, 0)

RECURSIVE from_iter_loop(_, _, _)
from_iter_loop(t, s, i) ==
    IF i > Len(s) THEN t
    ELSE from_iter_loop(push(t, s[i]).tree, s, i + 1)

from_iter(s) == from_iter_loop(new, s, 1)

\* ------------------------------------------------------------ iterator.rs
\* ElementIterator is the pair of cursors [index, end]; each call returns
\* the new cursors and the Option it yields.
iter(t) == [index |-> 0, end |-> t.len]

next(t, it) ==
    IF it.index + 1 >= it.end THEN [it |-> it, ret |-> None]
    ELSE [it |-> IF it.index < it.end THEN [it EXCEPT !.index = it.index + 1] ELSE it,
          ret |-> get(t, it.index)]

next_back(t, it) ==
    IF it.index >= it.end THEN [it |-> it, ret |-> None]
    ELSE [it |-> IF it.end >= it.index + 1 THEN [it EXCEPT !.end = it.end - 1] ELSE it,
          ret |-> get(t, it.end - 1)]

\* (len, Some(len)) with len = self.end - self.index
size_hint(it) == << it.end - it.index, Some(it.end - it.index) >>

\* `self.index + n + 1` overflows for large n: a build with overflow checks
\* (dbg) aborts there, a build without them wraps
nth(t, it, n, dbg) ==
    IF dbg /\ it.index + n + 1 > USIZE_MAX
    THEN [it |-> it, ret |-> None, panic |-> TRUE]
    ELSE IF Wrap(it.index + n + 1) >= it.end
    THEN [it |-> it, ret |-> None, panic |-> FALSE]
    ELSE [it |-> IF it.index < it.end THEN [it EXCEPT !.index = it.index + 1] ELSE it,
          ret |-> get(t, it.index), panic |-> FALSE]

\* ------------------------------------------------------------------ state
VARIABLES
    nodes,      \* PostfixSegmentTree::nodes
    len,        \* PostfixSegmentTree::len
    panicked,   \* the process aborted in the last call
    input,      \* the sequence the tree was constructed from
    last,       \* the last public call: its arguments and its result
    snap,       \* the tree before the last insert, kept across the remove that undoes it
    it,         \* the live ElementIterator, if any
    yielded     \* what the live iterator returned so far

vars == <<nodes, len, panicked, input, last, snap, it, yielded, monoid>>

\* the values an element can be given
Elems == IF monoid = "usize" THEN Values ELSE Words

tree == Tree(nodes, len)

\* len0 is len when the call was made; dbg tells whether the call ran with
\* debug assertions enabled (recorded where the outcome depends on it)
Call(op, index, count, value, dbg, out) ==
    [op |-> op, index |-> index, count |-> count, value |-> value, dbg |-> dbg,
     len0 |-> len, ret |-> out.ret, panic |-> out.panic,
     written |-> out.tree.written]

NoCall == [op |-> "new", index |-> 0, count |-> 0, value |-> Default, dbg |-> FALSE,
           len0 |-> 0, ret |-> None, panic |-> FALSE, written |-> {}]

NoSnap == [stage |-> "none", nodes |-> << >>, len |-> 0, index |-> 0,
           value |-> Default, ret |-> None, panic |-> FALSE]

\* calls: which of next / next_back the iterator has been advanced by;
\* ended: its last call returned None
NoIter == [live |-> FALSE, index |-> 0, end |-> 0, calls |-> "none", ended |-> FALSE]

\* the tree and the abort flag after a call with outcome `out`
Apply(out) ==
    /\ nodes' = out.tree.nodes
    /\ len' = out.tree.len
    /\ panicked' = out.panic

Init ==
    /\ monoid = "usize"
    /\ nodes = new.nodes
    /\ len = new.len
    /\ panicked = FALSE
    /\ input = << >>
    /\ last = NoCall
    /\ snap = NoSnap
    /\ it = NoIter
    /\ yielded = << >>

\* ---------------------------------------------------------------- actions
Push ==
    /\ ~panicked
    /\ len < MaxLen
    /\ \E v \in Elems :
         LET out == push(tree, v) IN
         /\ Apply(out)
         /\ last' = Call("push", len, 0, v, FALSE, out)
    /\ snap' = NoSnap
    /\ UNCHANGED <<monoid, input, it, yielded>>

Update ==
    /\ ~panicked
    /\ \E index \in 0 .. len, v \in Elems :
         LET out == update(tree, index, v) IN
         /\ Apply(out)
         /\ last' = Call("update", index, 0, v, FALSE, out)
    /\ snap' = NoSnap
    /\ UNCHANGED <<monoid, input, it, yielded>>

Insert ==
    /\ ~panicked
    /\ len < MaxLen
    /\ \E index \in 0 .. len + 1, v \in Elems :
         LET out == insert(tree, index, v) IN
         /\ Apply(out)
         /\ last' = Call("insert", index, 0, v, FALSE, out)
         /\ snap' = IF out.panic THEN NoSnap
                    ELSE [stage |-> "inserted", nodes |-> nodes, len |-> len,
                          index |-> index, value |-> v, ret |-> None, panic |-> FALSE]
    /\ UNCHANGED <<monoid, input, it, yielded>>

Remove ==
    /\ ~panicked
    /\ \E index \in 0 .. len, dbg \in BOOLEAN :
         LET out == remove(tree, index, dbg) IN
         /\ Apply(out)
         /\ last' = Call("remove", index, 0, Default, dbg, out)
         /\ snap' = IF snap.stage = "inserted" /\ snap.index = index
                    THEN [snap EXCEPT !.stage = "removed", !.ret = out.ret,
                                      !.panic = out.panic]
                    ELSE NoSnap
    /\ UNCHANGED <<monoid, input, it, yielded>>

Truncate ==
    /\ ~panicked
    /\ \E n \in 0 .. len + 1 :
         LET out == truncate_tree(tree, n) IN
         /\ Apply(out)
         /\ last' = Call("truncate", n, 0, Default, FALSE, out)
    /\ snap' = NoSnap
    /\ UNCHANGED <<monoid, input, it, yielded>>

PrefixSum ==
    /\ ~panicked
    /\ \E index \in 0 .. len + 1 :
         LET out == prefix_sum(tree, index) IN
         /\ Apply(out)
         /\ last' = Call("prefix_sum", index, 0, Default, FALSE, out)
    /\ snap' = NoSnap
    /\ UNCHANGED <<monoid, input, it, yielded>>

PostfixSum ==
    /\ ~panicked
    /\ \E index \in 0 .. len + 1 :
         LET out == postfix_sum(tree, index) IN
         /\ Apply(out)
         /\ last' = Call("postfix_sum", index, 0, Default, FALSE, out)
    /\ snap' = NoSnap
    /\ UNCHANGED <<monoid, input, it, yielded>>

Sum ==
    /\ ~panicked
    /\ \E index \in 0 .. len + 1 : \E count \in 0 .. len + 1 - index :
         LET out == sum(tree, index, count) IN
         /\ Apply(out)
         /\ last' = Call("sum", index, count, Default, FALSE, out)
    /\ snap' = NoSnap
    /\ UNCHANGED <<monoid, input, it, yielded>>

Get ==
    /\ ~panicked
    /\ \E index \in (0 .. len + 1) \cup {MAX_LEN + 1, USIZE_MAX} :
         LET out == Done(tree, get(tree, index)) IN
         /\ Apply(out)
         /\ last' = Call("get", index, 0, Default, FALSE, out)
    /\ snap' = NoSnap
    /\ UNCHANGED <<monoid, input, it, yielded>>

Next ==
    \/ Push
    \/ Update
    \/ Insert
    \/ Remove
    \/ Truncate
    \/ PrefixSum
    \/ PostfixSum
    \/ Sum
    \/ Get

Spec == Init /\ [][Next]_vars

\* the same operations on a tree of words
InitOrder ==
    /\ monoid = "words"
    /\ nodes = new.nodes
    /\ len = new.len
    /\ panicked = FALSE
    /\ input = << >>
    /\ last = NoCall
    /\ snap = NoSnap
    /\ it = NoIter
    /\ yielded = << >>

SpecOrder == InitOrder /\ [][Next]_vars

\* ------------------------------------------------------------- iteration
\* All sequences over S of length at most n
RECURSIVE SeqsUpTo(_, _)
SeqsUpTo(S, n) ==
    IF n = 0 THEN { << >> }
    ELSE LET shorter == SeqsUpTo(S, n - 1)
         IN  shorter \cup { Append(q, v) : q \in { r \in shorter : Len(r) = n - 1 }, v \in S }

\* PostfixSegmentTree::from_iter(input)
InitIter ==
    /\ monoid = "usize"
    /\ input \in SeqsUpTo(Values, MaxLen)
    /\ nodes = from_iter(input).nodes
    /\ len = from_iter(input).len
    /\ panicked = FALSE
    /\ last = NoCall
    /\ snap = NoSnap
    /\ it = NoIter
    /\ yielded = << >>

Iter ==
    /\ ~panicked
    /\ it' = [live |-> TRUE, index |-> iter(tree).index, end |-> iter(tree).end,
              calls |-> "none", ended |-> FALSE]
    /\ yielded' = << >>
    /\ UNCHANGED <<monoid, nodes, len, panicked, input, last, snap>>

Advance(r, kind) ==
    /\ it' = [live |-> TRUE, index |-> r.it.index, end |-> r.it.end,
              calls |-> IF it.calls \in {"none", kind} THEN kind ELSE "mixed",
              ended |-> r.ret = None]
    /\ yielded' = yielded \o r.ret
    /\ UNCHANGED <<monoid, nodes, len, panicked, input, last, snap>>

IterNext ==
    /\ it.live
    /\ Advance(next(tree, it), "next")

IterNextBack ==
    /\ it.live
    /\ Advance(next_back(tree, it), "next_back")

\* size_hint on the live iterator; index and count hold its cursors
IterSizeHint ==
    /\ it.live
    /\ last' = Call("size_hint", it.index, it.end, Default, FALSE,
                    Done(tree, size_hint(it)))
    /\ UNCHANGED <<monoid, nodes, len, panicked, input, snap, it, yielded>>

\* nth(n) on the live iterator; index and count hold the cursors before the
\* call, value holds n, and ret the item returned and the cursor left
IterNth ==
    /\ it.live
    /\ \E n \in (0 .. MaxLen + 1) \cup {USIZE_MAX}, dbg \in BOOLEAN :
         LET r == nth(tree, it, n, dbg) IN
         /\ it' = [live |-> ~r.panic, index |-> r.it.index, end |-> r.it.end,
                   calls |-> "mixed", ended |-> r.ret = None]
         /\ yielded' = yielded \o r.ret
         /\ panicked' = r.panic
         /\ last' = Call("nth", it.index, it.end, n, dbg,
                         [tree |-> tree, panic |-> r.panic,
                          ret |-> [item |-> r.ret, index |-> r.it.index]])
    /\ UNCHANGED <<monoid, nodes, len, input, snap>>

NextIter ==
    \/ Iter
    \/ IterNext
    \/ IterNextBack
    \/ IterSizeHint
    \/ IterNth

SpecIter == InitIter /\ [][NextIter]_vars

\* ------------------------------------------------------- indexed access
\* tree[index] on a tree built by from_iter, index over the whole word; the
\* access leaves the tree as it is, so a run makes one access
Index ==
    /\ ~panicked
    /\ last = NoCall
    /\ \E index \in 0 .. USIZE_MAX, dbg \in BOOLEAN :
         LET out == index_op(tree, index, dbg) IN
         /\ Apply(out)
         /\ last' = Call("index", index, 0, Default, dbg, out)
    /\ UNCHANGED <<monoid, input, snap, it, yielded>>

NextIndex == Index

SpecIndex == InitIter /\ [][NextIndex]_vars

\* --------------------------------------------------------- storage layout
\* get_nodes_len_for and NodeId::node_index over every argument their
\* callers can pass: len <= MAX_LEN, level <= max_level(index).  A run makes
\* one call: the functions are pure.
Internal(op, index, count, dbg, panic, ret) ==
    Call(op, index, count, Default, dbg, [tree |-> tree, panic |-> panic, ret |-> ret])

NodesLenFor ==
    /\ last = NoCall
    /\ \E n \in 0 .. MAX_LEN, dbg \in BOOLEAN :
         last' = IF dbg /\ ~get_nodes_len_for_assert(n)
                 THEN Internal("get_nodes_len_for", n, 0, dbg, TRUE, None)
                 ELSE Internal("get_nodes_len_for", n, 0, dbg, FALSE,
                               Some(get_nodes_len_for(n)))
    /\ UNCHANGED <<monoid, nodes, len, panicked, input, snap, it, yielded>>

\* count holds the level
NodeIndex ==
    /\ last = NoCall
    /\ \E index \in 0 .. MAX_LEN, dbg \in BOOLEAN :
         \E level \in 0 .. get_max_level_from_index(index) :
           last' = IF dbg /\ ~(/\ NodeId_new_assert(index, level)
                               /\ get_nodes_len_for_assert(index))
                   THEN Internal("node_index", index, level, dbg, TRUE, None)
                   ELSE Internal("node_index", index, level, dbg, FALSE,
                                 Some(node_index(NodeId(index, level))))
    /\ UNCHANGED <<monoid, nodes, len, panicked, input, snap, it, yielded>>

\* left_child and right_child of NodeId::new(index, level) for the levels
\* recalculate_node passes (level >= 1); both debug_assert!(self.level > 0).
\* count holds the level.
Children ==
    /\ last = NoCall
    /\ \E index \in 0 .. MAX_LEN, dbg \in BOOLEAN :
         \E level \in 1 .. get_max_level_from_index(index) :
           LET id == NodeId(index, level) IN
           last' = IF dbg /\ ~(NodeId_new_assert(index, level) /\ level > 0)
                   THEN Internal("children", index, level, dbg, TRUE, None)
                   ELSE Internal("children", index, level, dbg, FALSE,
                                 Some([left |-> left_child(id), right |-> right_child(id)]))
    /\ UNCHANGED <<monoid, nodes, len, panicked, input, snap, it, yielded>>

NextLayout ==
    \/ NodesLenFor
    \/ NodeIndex
    \/ Children

SpecLayout == Init /\ [][NextLayout]_vars

\* --------------------------------------------------------- skip iterators
\* The iterators over every range the tree can ask for: end <= MAX_LEN.
\* index holds the start of the range and count its end.  A run makes one
\* call: the calls share no state, so a second call adds nothing.
Skipping ==
    /\ last = NoCall
    /\ \E end \in 0 .. MAX_LEN, dbg \in BOOLEAN :
         LET r == SkippingIterator_run(0, end, dbg, << >>, 0) IN
         last' = Internal("skipping", 0, end, dbg, r.panic, r)
    /\ UNCHANGED <<monoid, nodes, len, panicked, input, snap, it, yielded>>

Increasing ==
    /\ last = NoCall
    /\ \E end \in 0 .. MAX_LEN, dbg \in BOOLEAN :
         \E start \in min_reachable_index_for_elements(end) .. MAX_LEN :
           /\ start <= end + 1
           /\ LET r == IncreasingSkippingIterator_run(start, end, dbg) IN
              last' = Internal("increasing", start, end, dbg, r.panic, r)
    /\ UNCHANGED <<monoid, nodes, len, panicked, input, snap, it, yielded>>

SkipToPivot ==
    /\ last = NoCall
    /\ \E end \in 0 .. MAX_LEN, dbg \in BOOLEAN :
         \E index \in 0 .. end :
           LET r == skip_to_pivot(0, index, end, dbg) IN
           last' = Internal("skip_to_pivot", index, end, dbg, r.panic, r)
    /\ UNCHANGED <<monoid, nodes, len, panicked, input, snap, it, yielded>>

SumNodeIds ==
    /\ last = NoCall
    /\ \E end \in 0 .. MAX_LEN, dbg \in BOOLEAN :
         \E start \in 0 .. end :
           LET r == sum_node_ids(start, end - start, dbg) IN
           last' = Internal("sum_node_ids", start, end, dbg, r.panic, r)
    /\ UNCHANGED <<monoid, nodes, len, panicked, input, snap, it, yielded>>

NextSkip ==
    \/ Skipping
    \/ Increasing
    \/ SkipToPivot
    \/ SumNodeIds

SpecSkip == Init /\ [][NextSkip]_vars

\* ----------------------------------------------------------------- claims
\* the sum of get(lo), ..., get(hi) of tree t (0 when the range is empty)
RECURSIVE ElementSum(_, _, _)
ElementSum(t, lo, hi) ==
    IF hi < lo THEN 0 ELSE ElementSum(t, lo, hi - 1) + get(t, hi)[1]

\* the element sequence get(0), ..., get(len - 1) of tree t
Elements(t) == [j \in 1 .. t.len |-> get(t, j - 1)[1]]

\* C1 (INV-SUM): in every reachable state, for every leaf index i < len and
\* every level L <= max_level(i), the node stored in slot f(i) + L holds the
\* sum of the elements at positions i - 2^L + 1 .. i.
C1_InvSum ==
    \A i \in 0 .. len - 1 :
        \A L \in 0 .. trailing_ones(i) :
            nodes[(2 * i - count_ones(i)) + L + 1] = ElementSum(tree, i - Pow2(L) + 1, i)

\* an insertion in the middle of a three-element tree left a level-2 node
\* that sums to more than one
C1_Witness ==
    /\ last.op = "insert" /\ ~last.panic
    /\ last.index = 1 /\ len = 4
    /\ nodes[7] >= 2

\* C2: in every reachable state the vector holds exactly
\* f(len) = 2*len - popcount(len) nodes.
C2_NodesLen == Len(nodes) = 2 * len - count_ones(len)

\* the fourth push grew the vector by three slots, to seven nodes
C2_Witness ==
    /\ last.op = "push" /\ ~last.panic
    /\ last.len0 = 3 /\ len = 4 /\ Len(nodes) = 7

\* C3: a completed prefix_sum(k) returns get(0) + ... + get(k - 1).
C3_PrefixSum ==
    (last.op = "prefix_sum" /\ ~last.panic)
        => last.ret = Some(ElementSum(tree, 0, last.index - 1))

\* prefix_sum(3) walked two nodes, (1, 1) and (2, 0), and returned 3
C3_Witness ==
    /\ last.op = "prefix_sum" /\ ~last.panic
    /\ last.index = 3 /\ last.ret = Some(3)

\* C4: a completed sum(index, count) returns
\* prefix_sum(index + count) - prefix_sum(index), which is the sum of the
\* elements at positions index .. index + count - 1.
C4_Sum ==
    (last.op = "sum" /\ ~last.panic)
        => /\ last.ret = Some(prefix_sum(tree, last.index + last.count).ret[1]
                              - prefix_sum(tree, last.index).ret[1])
           /\ last.ret = Some(ElementSum(tree, last.index, last.index + last.count - 1))

\* sum(1, 3) used both phases (pivot 4) and returned a non-zero sum
C4_Witness ==
    /\ last.op = "sum" /\ ~last.panic
    /\ last.index = 1 /\ last.count = 3
    /\ last.ret = Some(3)

Reverse(q) == [j \in 1 .. Len(q) |-> q[Len(q) + 1 - j]]

\* C5: on a tree built by from_iter(input), a fresh iterator advanced only by
\* next() until it returns None has yielded exactly input, and one advanced
\* only by next_back() until None has yielded input reversed.
C5_RoundTrip ==
    /\ (it.live /\ it.calls = "next" /\ it.ended) => yielded = input
    /\ (it.live /\ it.calls = "next_back" /\ it.ended) => yielded = Reverse(input)

\* the tree a step leaves behind
tree_next == Tree(nodes', len')

\* C6: insert(i, v) followed by remove(i) returns v and restores len, every
\* element and every prefix sum of the tree the insert was applied to.
C6_InsertRemove ==
    snap.stage = "removed" =>
        LET orig == Tree(snap.nodes, snap.len) IN
        /\ ~snap.panic
        /\ snap.ret = Some(snap.value)
        /\ len = snap.len
        /\ \A j \in 0 .. snap.len - 1 : get(tree, j) = get(orig, j)
        /\ \A k \in 0 .. snap.len : prefix_sum(tree, k).ret = prefix_sum(orig, k).ret

\* C7: a completed insert(index, v) leaves len + 1 elements: the old ones
\* below index in place, v at index, and the old ones from index on moved up
\* by one position.
C7_Insert ==
    [][ (last'.op = "insert" /\ ~last'.panic) =>
            /\ len' = len + 1
            /\ \A j \in 0 .. len :
                 get(tree_next, j) =
                     IF j < last'.index THEN get(tree, j)
                     ELSE IF j = last'.index THEN Some(last'.value)
                     ELSE get(tree, j - 1) ]_vars

\* an insert in the middle of three elements, with 1 inserted before a 0
C7_Witness ==
    /\ last.op = "insert" /\ ~last.panic
    /\ last.index = 1 /\ last.len0 = 3 /\ last.value = 1
    /\ get(tree, 2) = Some(0) /\ get(tree, 3) = Some(1)

\* C8: remove(index) with index < len completes, returns the element at
\* index, and leaves len - 1 elements: the old ones below index in place and
\* the old ones above index moved down by one position.
C8_Remove ==
    [][ (last'.op = "remove" /\ last'.index < len) =>
            /\ ~last'.panic
            /\ last'.ret = get(tree, last'.index)
            /\ len' = len - 1
            /\ \A j \in 0 .. len - 2 :
                 get(tree_next, j) =
                     IF j < last'.index THEN get(tree, j) ELSE get(tree, j + 1) ]_vars

\* C9: a completed update(index, value) leaves len unchanged, value at index
\* and every other element as it was.
C9_Update ==
    [][ (last'.op = "update" /\ ~last'.panic) =>
            /\ len' = len
            /\ \A j \in 0 .. len - 1 :
                 get(tree_next, j) =
                     IF j = last'.index THEN Some(last'.value) ELSE get(tree, j) ]_vars

\* update(2, 1) on a four-element tree whose other elements are not all 1
C9_Witness ==
    /\ last.op = "update" /\ ~last.panic
    /\ last.index = 2 /\ last.value = 1 /\ len = 4
    /\ get(tree, 2) = Some(1) /\ get(tree, 3) = Some(0)
    /\ prefix_sum(tree, 4).ret = Some(2)

\* C10: a completed push leaves the n = nodes_len() slots that existed before
\* the call with their contents, and stores only into slots >= n.
C10_PushStable ==
    [][ (last'.op = "push" /\ ~last'.panic) =>
            /\ Len(nodes') > Len(nodes)
            /\ SubSeq(nodes', 1, Len(nodes)) = nodes
            /\ \A slot \in last'.written : slot >= Len(nodes) ]_vars

\* the fourth push wrote the new leaf (slot 4) and recalculated the nodes
\* (3, 1) and (3, 2) (slots 5 and 6), over old slots that are not all zero
C10_Witness ==
    /\ last.op = "push" /\ ~last.panic
    /\ last.len0 = 3 /\ last.written = {4, 5, 6}
    /\ nodes[7] >= 2 /\ nodes[3] >= 1

\* C11: get(index) never aborts and leaves the tree as it was; it returns
\* None when index >= len and the leaf stored for position index (slot
\* 2*index - popcount(index)) when index < len.
C11_Get ==
    [][ last'.op = "get" =>
            /\ ~last'.panic
            /\ nodes' = nodes /\ len' = len
            /\ last'.ret = IF last'.index >= len THEN None
                           ELSE Some(nodes[(2 * last'.index - count_ones(last'.index)) + 1]) ]_vars

\* get(2) and get(len) on a three-element tree whose element 2 is 1 while
\* slot 2, the node (1, 1), holds 0
C11_Witness ==
    /\ last.op = "get" /\ ~last.panic
    /\ last.index = 2 /\ len = 3 /\ last.ret = Some(1) /\ nodes[3] = 0

\* C12: tree[index] with index >= len aborts, for every index of the word,
\* and so never returns a stored node.
C12_IndexOutOfRange ==
    (last.op = "index" /\ last.index >= last.len0) => (last.panic /\ last.ret = None)

\* C13: a call of update, push, insert or remove either completes with
\* INV-SUM holding, or aborts with nodes and len as they were before the call.
C13_NoPartialApplication ==
    [][ last'.op \in {"update", "push", "insert", "remove"} =>
            IF last'.panic THEN nodes' = nodes /\ len' = len
            ELSE C1_InvSum' ]_vars

\* C20: insert(index, v) with index <= len and remove(index) with index < len
\* leave the contents of every slot below 2*index - popcount(index) (the
\* slots of the nodes (i, level) with i < index) unchanged, and store only
\* into slots at or above it.
C20_PrefixSlotsStable ==
    [][ (\/ last'.op = "insert" /\ last'.index <= len
         \/ last'.op = "remove" /\ last'.index < len) =>
            LET first == 2 * last'.index - count_ones(last'.index) IN
            /\ Len(nodes') >= first
            /\ SubSeq(nodes', 1, first) = SubSeq(nodes, 1, first)
            /\ \A slot \in last'.written : slot >= first ]_vars

\* insert(2, 1) into three elements: the leaf swap and the recalculation of
\* (3, 1) and (3, 2) store into slots 3 .. 6 only, above the non-zero node (1, 1)
C20_Witness ==
    /\ last.op = "insert" /\ ~last.panic
    /\ last.index = 2 /\ last.len0 = 3 /\ last.value = 1
    /\ last.written = {3, 4, 5, 6}
    /\ nodes[3] >= 1

\* the number of valid (index, level) pairs with index < n
RECURSIVE PairsBefore(_)
PairsBefore(n) ==
    IF n = 0 THEN 0 ELSE PairsBefore(n - 1) + get_max_level_from_index(n - 1) + 1

\* C14: node_index(index, level) of a valid pair is f(index) + level, is
\* the rank of the pair among the valid pairs in increasing (index, level)
\* order, differs from the node_index of every other valid pair, and lies
\* in 0 .. f(n)-1 exactly for the lengths n > index.
C14_NodeIndex ==
    (last.op = "node_index") =>
        LET index == last.index
            level == last.count
        IN  /\ ~last.panic
            /\ last.ret = Some((2 * index - count_ones(index)) + level)
            /\ last.ret = Some(PairsBefore(index) + level)
            /\ \A i \in 0 .. MAX_LEN : \A l \in 0 .. get_max_level_from_index(i) :
                   <<i, l>> # <<index, level>>
                       => Some(node_index(NodeId(i, l))) # last.ret
            /\ \A n \in 0 .. MAX_LEN :
                   (index < n) <=> (last.ret[1] < 2 * n - count_ones(n))

C14_Witness ==
    /\ last.op = "node_index" /\ ~last.panic
    /\ last.index = 3 /\ last.count = 2 /\ last.ret = Some(6)

\* the recursive definition of the node count
RECURSIVE f_rec(_)
f_rec(n) ==
    IF n = 0 THEN 0
    ELSE LET p == CHOOSE q \in 1 .. n :
                    /\ \E k \in 0 .. WordBits : q = Pow2(k)
                    /\ 2 * q > n
         IN  IF n = p THEN 2 * p - 1 ELSE f_rec(p) + f_rec(n - p)

\* C15: for every n in 0 .. MAX_LEN, get_nodes_len_for(n) completes and
\* equals the recursive f(n).
C15_ClosedForm ==
    (last.op = "get_nodes_len_for") =>
        (~last.panic /\ last.ret = Some(f_rec(last.index)))

C15_Witness ==
    /\ last.op = "get_nodes_len_for" /\ ~last.panic
    /\ last.index = 11 /\ last.ret = Some(19)

\* the first leaf of the range of node id
first_leaf(id) == id.index + 1 - Pow2(id.level)

\* the ranges of ids are consecutive and their union is exactly [start, end)
Covers(ids, start, end) ==
    IF ids = << >> THEN start >= end
    ELSE /\ first_leaf(ids[1]) = start
         /\ \A k \in 1 .. Len(ids) - 1 : first_leaf(ids[k + 1]) = ids[k].index + 1
         /\ ids[Len(ids)].index + 1 = end

\* the positions of the set bits of n
SetBits(n) == { b \in 0 .. WordBits - 1 : (n \div Pow2(b)) % 2 = 1 }

\* C16: SkippingIterator::new(end) run to its end terminates without
\* aborting; its levels strictly decrease and are the set bits of end, every
\* node has level <= max_level(index), and the ranges tile [0, end).
C16_Skipping ==
    (last.op = "skipping") =>
        LET ids == last.ret.ids
            end == last.count
        IN  /\ ~last.panic /\ last.ret.ended
            /\ \A k \in 1 .. Len(ids) - 1 : ids[k].level > ids[k + 1].level
            /\ \A k \in 1 .. Len(ids) : ids[k].level <= trailing_ones(ids[k].index)
            /\ Covers(ids, 0, end)
            /\ { ids[k].level : k \in 1 .. Len(ids) } = SetBits(end)

C16_Witness ==
    /\ last.op = "skipping" /\ last.count = 11 /\ last.ret.ended
    /\ last.ret.ids = << NodeId(7, 3), NodeId(9, 1), NodeId(10, 0) >>

\* C17: IncreasingSkippingIterator::new(start, end) with
\* min_reachable_index_for_elements(end) <= start terminates without
\* aborting; its levels strictly increase, every node is valid, and the
\* ranges tile [start, end) (no node when start >= end).
C17_Increasing ==
    (last.op = "increasing") =>
        LET ids == last.ret.ids
            start == last.index
            end == last.count
        IN  /\ ~last.panic /\ last.ret.ended
            /\ \A k \in 1 .. Len(ids) - 1 : ids[k].level < ids[k + 1].level
            /\ \A k \in 1 .. Len(ids) : ids[k].level <= trailing_ones(ids[k].index)
            /\ Covers(ids, start, end)
            /\ (start >= end) => ids = << >>

C17_Witness ==
    /\ last.op = "increasing" /\ last.index = 9 /\ last.count = 16 /\ last.ret.ended
    /\ last.ret.ids = << NodeId(9, 0), NodeId(11, 1), NodeId(15, 2) >>

\* the cursor positions of the descending iteration over [0, end)
Cursors(end) ==
    LET ids == SkippingIterator_run(0, end, FALSE, << >>, 0).ids
    IN  {0} \cup { ids[k].index + 1 : k \in 1 .. Len(ids) }

\* C18: for index <= end, get_pivot(index, end) terminates without aborting
\* and returns the least cursor position of the descending iteration over
\* [0, end) that is >= index; index <= pivot <= end and
\* min_reachable_index_for_elements(pivot) <= index.
C18_Pivot ==
    (last.op = "skip_to_pivot") =>
        LET pivot == last.ret.pivot
            index == last.index
            end == last.count
        IN  /\ ~last.panic /\ last.ret.ended
            /\ pivot \in Cursors(end)
            /\ pivot >= index
            /\ \A c \in Cursors(end) : c >= index => pivot <= c
            /\ index <= pivot /\ pivot <= end
            /\ (IF pivot = 0 THEN 0 ELSE pivot - Pow2(trailing_zeros(pivot))) <= index

C18_Witness ==
    /\ last.op = "skip_to_pivot" /\ last.index = 9 /\ last.count = 11
    /\ last.ret.ended /\ last.ret.pivot = 10

\* C19: for start <= end, the nodes sum reads (ascending over
\* [start, pivot), then descending from the pivot to end) tile [start, end);
\* each has level <= max_level(index) and index < end, and its slot lies
\* inside the storage of every tree with len >= end.
C19_Stitch ==
    (last.op = "sum_node_ids") =>
        LET ids == last.ret.ids
            start == last.index
            end == last.count
        IN  /\ ~last.panic /\ last.ret.ended
            /\ Covers(ids, start, end)
            /\ \A k \in 1 .. Len(ids) :
                   /\ ids[k].level <= trailing_ones(ids[k].index)
                   /\ ids[k].index < end
                   /\ \A n \in {end, MAX_LEN} :
                         (2 * ids[k].index - count_ones(ids[k].index)) + ids[k].level
                             < 2 * n - count_ones(n)

C19_Witness ==
    /\ last.op = "sum_node_ids" /\ last.index = 5 /\ last.count = 11 /\ last.ret.ended
    /\ last.ret.ids = << NodeId(5, 0), NodeId(7, 1), NodeId(9, 1), NodeId(10, 0) >>

\* C21: for a valid node with level >= 1, left_child and right_child are
\* (index - 2^(level-1), level-1) and (index, level-1), both valid nodes;
\* their ranges are the first and the second half of the parent's range,
\* and their slots are strictly below the parent's slot.
C21_Children ==
    (last.op = "children" /\ last.count >= 1) =>
        LET index == last.index
            level == last.count
            half == Pow2(level - 1)
            lo == index + 1 - 2 * half
            slot == (2 * index - count_ones(index)) + level
        IN  /\ ~last.panic
            /\ LET left == last.ret[1].left
                   right == last.ret[1].right
               IN  /\ left = NodeId(index - half, level - 1)
                   /\ right = NodeId(index, level - 1)
                   /\ left.level <= trailing_ones(left.index)
                   /\ right.level <= trailing_ones(right.index)
                   /\ first_leaf(left) = lo /\ left.index + 1 = lo + half
                   /\ first_leaf(right) = lo + half /\ right.index = index
                   /\ (2 * left.index - count_ones(left.index)) + left.level < slot
                   /\ (2 * right.index - count_ones(right.index)) + right.level < slot

C21_Witness ==
    /\ last.op = "children" /\ ~last.panic
    /\ last.index = 7 /\ last.count = 3
    /\ last.ret = Some([left |-> NodeId(3, 2), right |-> NodeId(7, 2)])

\* the stated precondition of the public call recorded in `last`
WithinPrecondition ==
    CASE last.op \in {"get", "truncate"} -> TRUE
      [] last.op \in {"prefix_sum", "postfix_sum"} -> last.index <= last.len0
      [] last.op = "sum" -> last.index <= last.len0 /\ last.count <= last.len0 - last.index
      [] last.op \in {"update", "remove"} -> last.index < last.len0
      [] last.op = "push" -> last.len0 <= MAX_LEN - 1
      [] last.op = "insert" -> last.len0 <= MAX_LEN - 1 /\ last.index <= last.len0
      [] OTHER -> FALSE

\* C22: a public operation called on a reachable tree within its stated
\* precondition does not abort: no assertion of a helper it invokes fails,
\* with or without debug assertions.
C22_HelpersWithinPrecondition ==
    WithinPrecondition => ~last.panic

\* the number of items further next() calls yield before the first None
RECURSIVE Remaining(_, _)
Remaining(t, cur) ==
    LET r == next(t, cur)
    IN  IF r.ret = None THEN 0 ELSE 1 + Remaining(t, r.it)

\* C23: at every point of an iteration advanced by next() and next_back(),
\* size_hint reports end - index as both bounds, and that number is the
\* number of items further next() calls yield before returning None.
C23_ExactSize ==
    (last.op = "size_hint") =>
        LET cur == [index |-> last.index, end |-> last.count]
        IN  /\ last.ret = << cur.end - cur.index, Some(cur.end - cur.index) >>
            /\ last.ret[1] = Remaining(tree, cur)

\* next() called k >= 1 times from cursor cur: the last result and the cursor
RECURSIVE next_times(_, _, _)
next_times(t, cur, k) ==
    LET r == next(t, cur)
    IN  IF k <= 1 THEN r ELSE next_times(t, r.it, k - 1)

\* C24: nth(n) returns the same item and leaves the same forward cursor as
\* n + 1 calls of next(), and the item is the element at position index + n
\* when index + n < end, None otherwise.
C24_Nth ==
    (last.op = "nth") =>
        LET cur == [index |-> last.index, end |-> last.count]
            n == last.value
            ref == next_times(tree, cur, n + 1)
        IN  /\ ~last.panic
            /\ last.ret.item = ref.ret
            /\ last.ret.index = ref.it.index
            /\ last.ret.item = IF cur.index + n < cur.end
                               THEN get(tree, cur.index + n) ELSE None

\* the letters of the word held as the number w, first letter first
RECURSIVE Letters(_)
Letters(w) == IF w = 0 THEN << >> ELSE Append(Letters(w \div 10), w % 10)

\* the letters of the elements at positions lo .. hi of tree t, in
\* increasing position order
RECURSIVE InOrder(_, _, _)
InOrder(t, lo, hi) ==
    IF hi < lo THEN << >> ELSE InOrder(t, lo, hi - 1) \o Letters(get(t, hi)[1])

\* C25: on a tree of words (concatenation, identity the empty word), in
\* every state reachable by push, update, insert and remove, every node
\* (i, L) holds the concatenation of its leaves in increasing position
\* order, and every completed prefix_sum(k) and sum(index, count) returns the
\* concatenation of the requested elements in increasing position order.
C25_Order ==
    /\ \A i \in 0 .. len - 1 :
          \A L \in 0 .. trailing_ones(i) :
              Letters(nodes[(2 * i - count_ones(i)) + L + 1])
                  = InOrder(tree, i - Pow2(L) + 1, i)
    /\ (last.op = "prefix_sum" /\ ~last.panic) =>
          Letters(last.ret[1]) = InOrder(tree, 0, last.index - 1)
    /\ (last.op = "sum" /\ ~last.panic) =>
          Letters(last.ret[1]) = InOrder(tree, last.index, last.index + last.count - 1)

\* sum(1, 2) read one node in each of its loops and returned the word 21
\* from the elements 1, 2, 1, whose first level-1 node holds 12
C25_Witness ==
    /\ monoid = "words"
    /\ last.op = "sum" /\ ~last.panic
    /\ last.index = 1 /\ last.count = 2 /\ last.ret = Some(21)
    /\ len = 3 /\ nodes[3] = 12
====
